---- MODULE Spec2Model ----
(***************************************************************************)
(* Model of applet.py, the tmux status applet built on psutil.             *)
(*                                                                         *)
(* One run is either the script entrypoint (main, which calls the four     *)
(* checkers with their default thresholds, selects the most severe result  *)
(* and prints one line) or a direct call of one checker with explicit      *)
(* warn/crit arguments.                                                    *)
(*                                                                         *)
(* Percentages sampled from psutil are floats rounded to one decimal; they *)
(* are represented by their number of tenths (85.5 is 855), thresholds are *)
(* whole percents, so that  usage > crit  reads  usage > crit * 10.        *)
(* str.format is modelled on templates: sequences of literal pieces and    *)
(* replacement fields.                                                     *)
(***************************************************************************)
EXTENDS Integers, Sequences, FiniteSets, TLC

\* ---------------------------------------------------------------- constants

CPU_USAGE_WARN == 80
CPU_USAGE_CRIT == 90
MEMORY_USAGE_WARN == 80
MEMORY_USAGE_CRIT == 90
DISK_USAGE_WARN == 70
DISK_USAGE_CRIT == 90
SWAP_USAGE_WARN == 20
SWAP_USAGE_CRIT == 50

FG_COLOR_OK == 17
BG_COLOR_OK == 190
FG_COLOR_WARN == 0
BG_COLOR_WARN == 220
FG_COLOR_CRIT == 255
BG_COLOR_CRIT == 196

\* class StatusCode(Enum); __str__ gives the member's name
StatusCode == {"OK", "WARNING", "CRITICAL", "UNKNOWN"}

\* class Status: a code and a text
Status(code, text) == [code |-> code, text |-> text]

\* ------------------------------------------------------------------- bounds

\* the longest partition list psutil.disk_partitions() returns
MaxDisks == 3

\* the partition tables of the machine, in the order the OS enumerates them;
\* psutil.disk_partitions() returns the first n entries of one of them
PartitionTables ==
    { <<"/", "/home", "/boot", "/var", "/tmp">>,
      <<"/tmp", "/var", "/home", "/", "/boot">> }

\* the mount points
Mounts == {t[i] : t \in PartitionTables, i \in 1..5}

\* percentages (in tenths) psutil reports for each metric
CpuSamples == {800, 855, 900, 953}
MemorySamples == {800, 812, 900, 1000}
DiskSamples == {105, 700, 751, 900, 954}
SwapSamples == {0, 200, 317, 500, 642}

\* warn / crit arguments of a direct call of a checker (whole percents)
Thresholds == {20, 50, 70, 80, 90}

\* ------------------------------------------------------------ str and format

Digits == <<"0", "1", "2", "3", "4", "5", "6", "7", "8", "9">>

\* str(n) of a non-negative int
RECURSIVE IntStr(_)
IntStr(n) ==
    IF n < 10 THEN Digits[n + 1]
    ELSE IntStr(n \div 10) \o Digits[(n % 10) + 1]

\* str(x) of a float with one decimal, x given in tenths: 855 is "85.5"
FloatStr(t) == IntStr(t \div 10) \o "." \o Digits[(t % 10) + 1]

\* the pieces of a format string
Lit(s) == [field |-> FALSE, s |-> s]
Field(name) == [field |-> TRUE, s |-> name]

\* the value of a string literal that has not been formatted
RECURSIVE Raw(_)
Raw(tmpl) ==
    IF tmpl = <<>> THEN ""
    ELSE (IF Head(tmpl).field THEN "{" \o Head(tmpl).s \o "}" ELSE Head(tmpl).s)
         \o Raw(Tail(tmpl))

\* tmpl.format(**kw)
RECURSIVE Format(_, _)
Format(tmpl, kw) ==
    IF tmpl = <<>> THEN ""
    ELSE (IF Head(tmpl).field THEN kw[Head(tmpl).s] ELSE Head(tmpl).s)
         \o Format(Tail(tmpl), kw)

CpuText == <<Lit("CPU: "), Field("usage"), Lit("%")>>
MemoryText == <<Lit("Memory: "), Field("usage"), Lit("%")>>
SwapText == <<Lit("Swap: "), Field("usage"), Lit("%")>>
DiskText == <<Lit("Disk "), Field("mount"), Lit(": "), Field("usage"), Lit("%")>>

\* the four string literals of the print statement
PrintLiteral1 == <<Lit("#[fg=colour"), Field("bg_color"), Lit(",bg=colour238]")>>
PrintLiteral2 ==
    <<Lit("#[fg=colour"), Field("fg_color"), Lit(",bg=colour"),
      Field("bg_color"), Lit("]")>>
PrintLiteral3 ==
    <<Field("text"), Lit(" #[fg=colour238,bg=colour"), Field("bg_color"), Lit("]")>>
PrintLiteral4 == <<Lit("#[fg=colour255,bg=colour238]")>>

\* -------------------------------------------------------------------- state

VARIABLES
    pc,              \* where the run is
    caller,          \* who called the running checker: "none", "main", "direct"
    fn,              \* the checker called last
    warn, crit,      \* its arguments
    usage,           \* the percentage it sampled (cpu, memory, swap)
    disks,           \* check_disk_usage: mount points of psutil.disk_partitions()
    disks_datas,     \* check_disk_usage: [mountpoint, percent] of each partition
    result,          \* the Status returned last
    checks,          \* main: the Statuses collected so far
    have_criticals, have_warnings, bg_color, fg_color, text,     \* main's locals
    stdout,          \* the lines printed
    invoked,         \* the checkers main has called, in call order
    raised           \* a psutil query raised

vars ==
    <<pc, caller, fn, warn, crit, usage, disks, disks_datas, result, checks,
      have_criticals, have_warnings, bg_color, fg_color, text, stdout, invoked,
      raised>>

frame == <<fn, warn, crit, usage, disks, disks_datas>>
main_locals == <<have_criticals, have_warnings, bg_color, fg_color, text>>

\* main's check_definitions list
check_definitions ==
    <<"check_cpu_usage", "check_memory_usage", "check_disk_usage", "check_swap_usage">>

\* the default arguments of each checker
DefaultWarn(f) ==
    CASE f = "check_cpu_usage" -> CPU_USAGE_WARN
      [] f = "check_memory_usage" -> MEMORY_USAGE_WARN
      [] f = "check_disk_usage" -> DISK_USAGE_WARN
      [] f = "check_swap_usage" -> SWAP_USAGE_WARN

DefaultCrit(f) ==
    CASE f = "check_cpu_usage" -> CPU_USAGE_CRIT
      [] f = "check_memory_usage" -> MEMORY_USAGE_CRIT
      [] f = "check_disk_usage" -> DISK_USAGE_CRIT
      [] f = "check_swap_usage" -> SWAP_USAGE_CRIT

Init ==
    /\ pc = "idle"
    /\ caller = "none"
    /\ fn = "none"
    /\ warn = 0
    /\ crit = 0
    /\ usage = 0
    /\ disks = <<>>
    /\ disks_datas = <<>>
    /\ result = Status("NONE", "")
    /\ checks = <<>>
    /\ have_criticals = FALSE
    /\ have_warnings = FALSE
    /\ bg_color = 0
    /\ fg_color = 0
    /\ text = ""
    /\ stdout = <<>>
    /\ invoked = <<>>
    /\ raised = FALSE

\* ------------------------------------------------------------------ actions

\* if __name__ == '__main__': main()
run_main ==
    /\ pc = "idle"
    /\ pc' = "main"
    /\ caller' = "main"
    /\ UNCHANGED <<frame, result, checks, main_locals, stdout, invoked, raised>>

\* a checker called directly, with explicit warn and crit
direct_call(f, w, c) ==
    /\ pc = "idle"
    /\ pc' = f
    /\ caller' = "direct"
    /\ fn' = f
    /\ warn' = w
    /\ crit' = c
    /\ usage' = 0
    /\ disks' = <<>>
    /\ disks_datas' = <<>>
    /\ UNCHANGED <<result, checks, main_locals, stdout, invoked, raised>>

\* checks = [check() for check in check_definitions]: the next call
main_checks ==
    /\ pc = "main"
    /\ Len(checks) < Len(check_definitions)
    /\ LET f == check_definitions[Len(checks) + 1] IN
        /\ pc' = f
        /\ fn' = f
        /\ warn' = DefaultWarn(f)
        /\ crit' = DefaultCrit(f)
        /\ invoked' = Append(invoked, f)
    /\ usage' = 0
    /\ disks' = <<>>
    /\ disks_datas' = <<>>
    /\ UNCHANGED <<caller, result, checks, main_locals, stdout, raised>>

\* return s: to main's list comprehension, or to the direct caller
Return(s) ==
    /\ result' = s
    /\ IF caller = "main"
       THEN /\ checks' = Append(checks, s)
            /\ pc' = "main"
       ELSE /\ pc' = "returned"
            /\ UNCHANGED checks

\* check_cpu_usage with >= for > (a usage at a threshold is flagged)
cpu_status_ge(u, w, c) ==
    IF u >= c * 10
    THEN Status("CRITICAL", Format(CpuText, [usage |-> FloatStr(u)]))
    ELSE IF u >= w * 10
    THEN Status("WARNING", Format(CpuText, [usage |-> FloatStr(u)]))
    ELSE Status("OK", Format(CpuText, [usage |-> FloatStr(u)]))

\* check_cpu_usage: the if / elif / else on the sampled usage
cpu_status(u, w, c) ==
    IF u > c * 10
    THEN Status("CRITICAL", Format(CpuText, [usage |-> FloatStr(u)]))
    ELSE IF u > w * 10
    THEN Status("WARNING", Format(CpuText, [usage |-> FloatStr(u)]))
    ELSE Status("OK", Format(CpuText, [usage |-> FloatStr(u)]))

\* usage = psutil.cpu_percent(interval=1), then the status
check_cpu_usage ==
    /\ pc = "check_cpu_usage"
    /\ \E u \in CpuSamples :
        /\ usage' = u
        /\ Return(cpu_status(u, warn, crit))
    /\ UNCHANGED <<caller, fn, warn, crit, disks, disks_datas, main_locals, stdout,
                   invoked, raised>>

\* check_memory_usage: the if / elif / else on the sampled usage
memory_status(u, w, c) ==
    IF u > c * 10
    THEN Status("CRITICAL", Format(MemoryText, [usage |-> FloatStr(u)]))
    ELSE IF u > w * 10
    THEN Status("WARNING", Format(MemoryText, [usage |-> FloatStr(u)]))
    ELSE Status("OK", Format(MemoryText, [usage |-> FloatStr(u)]))

\* usage = psutil.virtual_memory(), then the status of usage.percent
check_memory_usage ==
    /\ pc = "check_memory_usage"
    /\ \E u \in MemorySamples :
        /\ usage' = u
        /\ Return(memory_status(u, warn, crit))
    /\ UNCHANGED <<caller, fn, warn, crit, disks, disks_datas, main_locals, stdout,
                   invoked, raised>>

\* check_swap_usage: the if / elif / else on the sampled usage
swap_status(u, w, c) ==
    IF u > c * 10
    THEN Status("CRITICAL", Format(SwapText, [usage |-> FloatStr(u)]))
    ELSE IF u > w * 10
    THEN Status("WARNING", Format(SwapText, [usage |-> FloatStr(u)]))
    ELSE Status("OK", Format(SwapText, [usage |-> FloatStr(u)]))

\* usage = psutil.swap_memory(), then the status of usage.percent
check_swap_usage ==
    /\ pc = "check_swap_usage"
    /\ \E u \in SwapSamples :
        /\ usage' = u
        /\ Return(swap_status(u, warn, crit))
    /\ UNCHANGED <<caller, fn, warn, crit, disks, disks_datas, main_locals, stdout,
                   invoked, raised>>

\* disks = psutil.disk_partitions()
disk_partitions ==
    /\ pc = "check_disk_usage"
    /\ \E n \in 0..MaxDisks : \E t \in PartitionTables : disks' = SubSeq(t, 1, n)
    /\ pc' = "disk_usage"
    /\ UNCHANGED <<caller, fn, warn, crit, usage, disks_datas, result, checks,
                   main_locals, stdout, invoked, raised>>

\* disks_datas: [disk.mountpoint, psutil.disk_usage(disk.mountpoint).percent]
\* of the next partition
disk_usage ==
    /\ pc = "disk_usage"
    /\ Len(disks_datas) < Len(disks)
    /\ \E p \in DiskSamples :
        disks_datas' = Append(disks_datas, <<disks[Len(disks_datas) + 1], p>>)
    /\ UNCHANGED <<pc, caller, fn, warn, crit, usage, disks, result, checks,
                   main_locals, stdout, invoked, raised>>

\* check_disk_usage looking at disks_warnings before disks_criticals
disk_status_warnings_first(datas, w, c) ==
    LET disks_criticals ==
            SelectSeq(datas, LAMBDA disk_data : disk_data[2] > c * 10)
        disks_warnings ==
            SelectSeq(datas, LAMBDA disk_data : /\ disk_data[2] > w * 10
                                                /\ disk_data[2] < c * 10)
    IN  IF Len(disks_warnings) > 0
        THEN Status("WARNING",
                 Format(DiskText, [mount |-> disks_warnings[1][1],
                                   usage |-> FloatStr(disks_warnings[1][2])]))
        ELSE IF Len(disks_criticals) > 0
        THEN Status("CRITICAL",
                 Format(DiskText, [mount |-> disks_criticals[1][1],
                                   usage |-> FloatStr(disks_criticals[1][2])]))
        ELSE Status("OK", "Disks OK")

\* check_disk_usage with disks_warnings closed at crit (<= for <)
disk_status_crit_in_warnings(datas, w, c) ==
    LET disks_criticals ==
            SelectSeq(datas, LAMBDA disk_data : disk_data[2] > c * 10)
        disks_warnings ==
            SelectSeq(datas, LAMBDA disk_data : /\ disk_data[2] > w * 10
                                                /\ disk_data[2] <= c * 10)
    IN  IF Len(disks_criticals) > 0
        THEN Status("CRITICAL",
                 Format(DiskText, [mount |-> disks_criticals[1][1],
                                   usage |-> FloatStr(disks_criticals[1][2])]))
        ELSE IF Len(disks_warnings) > 0
        THEN Status("WARNING",
                 Format(DiskText, [mount |-> disks_warnings[1][1],
                                   usage |-> FloatStr(disks_warnings[1][2])]))
        ELSE Status("OK", "Disks OK")

\* check_disk_usage answering UNKNOWN when there is no partition to look at
disk_status_unknown_when_empty(datas, w, c) ==
    LET disks_criticals ==
            SelectSeq(datas, LAMBDA disk_data : disk_data[2] > c * 10)
        disks_warnings ==
            SelectSeq(datas, LAMBDA disk_data : /\ disk_data[2] > w * 10
                                                /\ disk_data[2] < c * 10)
    IN  IF Len(disks_criticals) > 0
        THEN Status("CRITICAL",
                 Format(DiskText, [mount |-> disks_criticals[1][1],
                                   usage |-> FloatStr(disks_criticals[1][2])]))
        ELSE IF Len(disks_warnings) > 0
        THEN Status("WARNING",
                 Format(DiskText, [mount |-> disks_warnings[1][1],
                                   usage |-> FloatStr(disks_warnings[1][2])]))
        ELSE IF Len(datas) = 0
        THEN Status("UNKNOWN", "Disks OK")
        ELSE Status("OK", "Disks OK")

\* check_disk_usage: disks_criticals, disks_warnings and the Status returned
disk_status(datas, w, c) ==
    LET disks_criticals ==
            SelectSeq(datas, LAMBDA disk_data : disk_data[2] > c * 10)
        disks_warnings ==
            SelectSeq(datas, LAMBDA disk_data : /\ disk_data[2] > w * 10
                                                /\ disk_data[2] < c * 10)
    IN  IF Len(disks_criticals) > 0
        THEN Status("CRITICAL",
                 Format(DiskText, [mount |-> disks_criticals[1][1],
                                   usage |-> FloatStr(disks_criticals[1][2])]))
        ELSE IF Len(disks_warnings) > 0
        THEN Status("WARNING",
                 Format(DiskText, [mount |-> disks_warnings[1][1],
                                   usage |-> FloatStr(disks_warnings[1][2])]))
        ELSE Status("OK", "Disks OK")

\* the rest of check_disk_usage, once disks_datas is complete
check_disk_usage ==
    /\ pc = "disk_usage"
    /\ Len(disks_datas) = Len(disks)
    /\ Return(disk_status(disks_datas, warn, crit))
    /\ UNCHANGED <<caller, frame, main_locals, stdout, invoked, raised>>

\* a psutil query raises and the checker swallows it, answering UNKNOWN
query_raises_unknown ==
    /\ \/ pc \in {"check_cpu_usage", "check_memory_usage", "check_swap_usage",
                  "check_disk_usage"}
       \/ pc = "disk_usage" /\ Len(disks_datas) < Len(disks)
    /\ raised' = TRUE
    /\ Return(Status("UNKNOWN", "check failed"))
    /\ UNCHANGED <<caller, frame, main_locals, stdout, invoked>>

\* a psutil query raises: nothing catches it, the run ends with a traceback
query_raises ==
    /\ \/ pc \in {"check_cpu_usage", "check_memory_usage", "check_swap_usage",
                  "check_disk_usage"}
       \/ pc = "disk_usage" /\ Len(disks_datas) < Len(disks)
    /\ pc' = "error"
    /\ raised' = TRUE
    /\ UNCHANGED <<caller, frame, result, checks, main_locals, stdout, invoked>>

\* the comprehension indexed by [-1] instead of [0]
FirstText_last(cs, code) ==
    LET matching == SelectSeq(cs, LAMBDA e : e.code = code)
    IN  matching[Len(matching)].text

\* [e.text for e in checks if e.code == code][0]
FirstText(cs, code) == SelectSeq(cs, LAMBDA e : e.code = code)[1].text

\* any(e.code == code for e in checks)
AnyCode(cs, code) == \E i \in 1..Len(cs) : cs[i].code = code

\* main reporting the first checker's text when nothing is wrong
Selection_first_text(cs) ==
    IF \E i \in 1..Len(cs) : cs[i].code = "CRITICAL"
    THEN [bg_color |-> BG_COLOR_CRIT, fg_color |-> FG_COLOR_CRIT,
          text |-> FirstText(cs, "CRITICAL")]
    ELSE IF \E i \in 1..Len(cs) : cs[i].code = "WARNING"
    THEN [bg_color |-> BG_COLOR_WARN, fg_color |-> FG_COLOR_WARN,
          text |-> FirstText(cs, "WARNING")]
    ELSE [bg_color |-> BG_COLOR_OK, fg_color |-> FG_COLOR_OK, text |-> cs[1].text]

\* the if / elif / else of main: the colors and the text chosen
Selection(cs) ==
    IF AnyCode(cs, "CRITICAL")
    THEN [bg_color |-> BG_COLOR_CRIT, fg_color |-> FG_COLOR_CRIT,
          text |-> FirstText(cs, "CRITICAL")]
    ELSE IF AnyCode(cs, "WARNING")
    THEN [bg_color |-> BG_COLOR_WARN, fg_color |-> FG_COLOR_WARN,
          text |-> FirstText(cs, "WARNING")]
    ELSE [bg_color |-> BG_COLOR_OK, fg_color |-> FG_COLOR_OK, text |-> "OK"]

\* main selecting as soon as one collected Status is CRITICAL
main_select_short_circuit ==
    /\ pc = "main"
    /\ \/ Len(checks) = Len(check_definitions)
       \/ AnyCode(checks, "CRITICAL")
    /\ have_criticals' = AnyCode(checks, "CRITICAL")
    /\ have_warnings' = AnyCode(checks, "WARNING")
    /\ bg_color' = Selection(checks).bg_color
    /\ fg_color' = Selection(checks).fg_color
    /\ text' = Selection(checks).text
    /\ pc' = "print"
    /\ UNCHANGED <<caller, frame, result, checks, stdout, invoked, raised>>

\* main, once the list comprehension is complete: have_criticals,
\* have_warnings, then the selection
main_select ==
    /\ pc = "main"
    /\ Len(checks) = Len(check_definitions)
    /\ have_criticals' = AnyCode(checks, "CRITICAL")
    /\ have_warnings' = AnyCode(checks, "WARNING")
    /\ bg_color' = Selection(checks).bg_color
    /\ fg_color' = Selection(checks).fg_color
    /\ text' = Selection(checks).text
    /\ pc' = "print"
    /\ UNCHANGED <<caller, frame, result, checks, stdout, invoked, raised>>

\* print(...): .format applies to the last literal only, the + come after it
main_print ==
    /\ pc = "print"
    /\ stdout' = Append(stdout,
           Raw(PrintLiteral1) \o Raw(PrintLiteral2) \o Raw(PrintLiteral3)
           \o Format(PrintLiteral4, [bg_color |-> IntStr(bg_color),
                                     fg_color |-> IntStr(fg_color),
                                     text |-> text]))
    /\ pc' = "done"
    /\ UNCHANGED <<caller, frame, result, checks, main_locals, invoked, raised>>

Next ==
    \/ run_main
    \/ \E f \in {check_definitions[i] : i \in 1..Len(check_definitions)} :
           \E w \in Thresholds : \E c \in Thresholds : direct_call(f, w, c)
    \/ main_checks
    \/ check_cpu_usage
    \/ check_memory_usage
    \/ check_swap_usage
    \/ disk_partitions
    \/ disk_usage
    \/ check_disk_usage
    \/ query_raises
    \/ main_select
    \/ main_print

Spec == Init /\ [][Next]_vars

\* the interpreter keeps running the program: every step that can be taken is taken
FairSpec == Spec /\ WF_vars(Next)

\* ------------------------------------------------------------------- claims

\* main has made its selection
Selected == pc \in {"print", "done"}

\* checker f has returned, and its arguments and samples are still in the frame
Returned(f) == fn = f /\ pc \in {"returned", "main"}

Order ==
    <<"check_cpu_usage", "check_memory_usage", "check_disk_usage", "check_swap_usage">>

Severities == {"OK", "WARNING", "CRITICAL"}

\* the first position of checks holding the code
FirstIndex(code) ==
    CHOOSE i \in 1..Len(checks) :
        /\ checks[i].code = code
        /\ \A j \in 1..(i - 1) : checks[j].code # code

\* the texts each checker can return
TextsOf(f) ==
    CASE f = "check_cpu_usage" ->
             {"CPU: " \o FloatStr(u) \o "%" : u \in CpuSamples}
      [] f = "check_memory_usage" ->
             {"Memory: " \o FloatStr(u) \o "%" : u \in MemorySamples}
      [] f = "check_swap_usage" ->
             {"Swap: " \o FloatStr(u) \o "%" : u \in SwapSamples}
      [] f = "check_disk_usage" ->
             {"Disks OK"} \cup
             {"Disk " \o m \o ": " \o FloatStr(u) \o "%" : m \in Mounts, u \in DiskSamples}

\* C1: once main has selected, with the results collected in the order CPU,
\* Memory, Disk, Swap: if some result is CRITICAL the chosen text is that of the
\* first CRITICAL result and the colors are fg=255, bg=196, whatever WARNING
\* results come earlier; otherwise, if some result is WARNING, the chosen text
\* is that of the first WARNING result and the colors are fg=0, bg=220.
C1_FirstOfHighestSeverity ==
    Selected =>
        /\ Len(checks) = 4
        /\ \A i \in 1..4 : checks[i].text \in TextsOf(Order[i])
        /\ (\E i \in 1..4 : checks[i].code = "CRITICAL") =>
               /\ text = checks[FirstIndex("CRITICAL")].text
               /\ fg_color = 255
               /\ bg_color = 196
        /\ ( /\ \A i \in 1..4 : checks[i].code # "CRITICAL"
             /\ \E i \in 1..4 : checks[i].code = "WARNING" ) =>
               /\ text = checks[FirstIndex("WARNING")].text
               /\ fg_color = 0
               /\ bg_color = 220

\* C1 witness: CPU is WARNING, Memory and Disk are CRITICAL, Memory's text is chosen
C1_Witness ==
    /\ Selected
    /\ checks[1].code = "WARNING"
    /\ checks[2].code = "CRITICAL"
    /\ checks[3].code = "CRITICAL"
    /\ text = "Memory: 100.0%"
    /\ fg_color = 255

\* C2: once main has selected, the chosen text is the literal "OK" with the
\* colors fg=17, bg=190 exactly when all four results are OK, and then it is
\* the text of no checker.
C2_AllOkLiteral ==
    Selected =>
        /\ (\A i \in 1..Len(checks) : checks[i].code = "OK")
               <=> (text = "OK" /\ fg_color = 17 /\ bg_color = 190)
        /\ (\A i \in 1..Len(checks) : checks[i].code = "OK")
               => \A i \in 1..Len(checks) : text # checks[i].text
        /\ text = "OK" <=> (fg_color = 17 /\ bg_color = 190)

\* C2 witness: all four OK, the disk checker said "Disks OK", main chose "OK"
C2_Witness ==
    /\ Selected
    /\ \A i \in 1..4 : checks[i].code = "OK"
    /\ checks[3].text = "Disks OK"
    /\ text = "OK"

\* the line of the output format, for a chosen fg, bg and text
ExpectedLine(fg, bg, t) ==
    "#[fg=colour" \o IntStr(fg) \o ",bg=colour238]"
    \o "#[fg=colour" \o IntStr(fg) \o ",bg=colour" \o IntStr(bg) \o "]"
    \o t \o " "
    \o "#[fg=colour238,bg=colour" \o IntStr(bg) \o "]"
    \o "#[fg=colour255,bg=colour238]"

\* C3: the single line main prints is the output template with every
\* placeholder replaced by the chosen fg, bg and text.
C3_PrintedLineIsFilledTemplate ==
    pc = "done" => stdout = <<ExpectedLine(fg_color, bg_color, text)>>

\* C4: for the cpu, memory and swap checkers, with warn < crit: CRITICAL iff
\* usage > crit, WARNING iff warn < usage <= crit, OK iff usage <= warn; the
\* text carries the sampled usage whatever the code (and whatever the thresholds).
C4_ThreeWayStrict ==
    \A f \in {"check_cpu_usage", "check_memory_usage", "check_swap_usage"} :
        Returned(f) =>
            /\ warn < crit =>
                /\ result.code = "CRITICAL" <=> usage > crit * 10
                /\ result.code = "WARNING" <=> (warn * 10 < usage /\ usage <= crit * 10)
                /\ result.code = "OK" <=> usage <= warn * 10
            /\ result.text =
                   (CASE f = "check_cpu_usage" -> "CPU: "
                      [] f = "check_memory_usage" -> "Memory: "
                      [] f = "check_swap_usage" -> "Swap: ")
                   \o FloatStr(usage) \o "%"
            /\ (f = "check_cpu_usage" /\ usage = 855) => result.text = "CPU: 85.5%"
            /\ (f = "check_memory_usage" /\ usage = 1000) => result.text = "Memory: 100.0%"
            /\ (f = "check_swap_usage" /\ usage = 0) => result.text = "Swap: 0.0%"

\* C4 witness: swap sampled exactly at crit, with warn < crit, is WARNING
C4_Witness ==
    /\ Returned("check_swap_usage")
    /\ warn < crit
    /\ usage = crit * 10
    /\ result = [code |-> "WARNING", text |-> "Swap: 50.0%"]

\* positions of disks_datas above crit, and in the warning bucket
OverCrit == {i \in 1..Len(disks_datas) : disks_datas[i][2] > crit * 10}
InWarnBucket ==
    {i \in 1..Len(disks_datas) :
        disks_datas[i][2] > warn * 10 /\ disks_datas[i][2] < crit * 10}
Min(S) == CHOOSE i \in S : \A j \in S : i <= j
DiskTextOf(i) ==
    "Disk " \o disks_datas[i][1] \o ": " \o FloatStr(disks_datas[i][2]) \o "%"

\* C5: when check_disk_usage returns and some partition is above crit, the
\* result is CRITICAL with the mount point and usage of the first such
\* partition in enumeration order, whatever comes before it.
C5_FirstCriticalDisk ==
    (Returned("check_disk_usage") /\ OverCrit # {}) =>
        result = [code |-> "CRITICAL", text |-> DiskTextOf(Min(OverCrit))]

\* C5 witness: a warning-range partition, then two different critical ones
C5_Witness ==
    /\ Returned("check_disk_usage")
    /\ disks_datas = <<<<"/", 751>>, <<"/home", 954>>, <<"/boot", 954>>>>
    /\ warn = 70
    /\ crit = 90
    /\ result = [code |-> "CRITICAL", text |-> "Disk /home: 95.4%"]

C7_OverWarnIsNeverOk ==
    ( /\ Returned("check_disk_usage")
      /\ warn < crit
      /\ \E i \in 1..Len(disks_datas) : disks_datas[i][2] > warn * 10 )
        => result.code \in {"WARNING", "CRITICAL"}

\* C8: once a psutil query has raised, the run is in its error state, which it
\* never leaves, nothing has been printed, and no Status is UNKNOWN.
C8_FailFast ==
    /\ raised =>
        /\ pc = "error"
        /\ stdout = <<>>
        /\ Len(checks) < 4
        /\ \A i \in 1..Len(checks) : checks[i].code # "UNKNOWN"
        /\ result.code # "UNKNOWN"
    /\ pc = "error" => (raised /\ ~ENABLED Next)

\* C8 witness: CPU returned CRITICAL, the first partition is above crit, and
\* the disk_usage query of the second partition raised
C8_Witness ==
    /\ pc = "error"
    /\ caller = "main"
    /\ Len(checks) = 2
    /\ checks[1].code = "CRITICAL"
    /\ fn = "check_disk_usage"
    /\ Len(disks) = 2
    /\ Len(disks_datas) = 1
    /\ disks_datas[1][2] > crit * 10
    /\ stdout = <<>>

\* C9: every Status a checker returns, for every sample, partition list and
\* threshold pair (warn >= crit included), has a code among OK, WARNING and
\* CRITICAL; so main's chosen colors are one of the three pairs, each on its
\* own branch.
C9_UnknownUnreachable ==
    /\ \A i \in 1..Len(checks) : checks[i].code \in Severities
    /\ (fn # "none" /\ pc \in {"returned", "main"}) => result.code \in Severities
    /\ Selected =>
        /\ <<fg_color, bg_color>> \in {<<17, 190>>, <<0, 220>>, <<255, 196>>}
        /\ <<fg_color, bg_color>> = <<255, 196>> <=> have_criticals
        /\ <<fg_color, bg_color>> = <<0, 220>> <=> (~have_criticals /\ have_warnings)
        /\ <<fg_color, bg_color>> = <<17, 190>> <=> (~have_criticals /\ ~have_warnings)

\* C9 witness: the disk checker called with warn >= crit on an empty partition list
C9_Witness ==
    /\ pc = "returned"
    /\ fn = "check_disk_usage"
    /\ warn >= crit
    /\ disks_datas = <<>>
    /\ result.code = "OK"

\* what C10 says of each state of a run of main
C10_State ==
    caller = "main" =>
        /\ Len(invoked) <= 4
        /\ \A i \in 1..Len(invoked) : invoked[i] = Order[i]
        /\ Len(checks) = (IF pc \in {"main", "print", "done"}
                          THEN Len(invoked) ELSE Len(invoked) - 1)
        /\ Selected => Len(checks) = 4
        /\ Len(stdout) <= 1
        /\ stdout # <<>> => pc = "done"
        /\ pc = "done" => (Len(stdout) = 1 /\ Len(checks) = 4 /\ invoked = Order)

\* C10: in a run of main, the checkers are invoked once each in the order CPU,
\* Memory, Disk, Swap, each giving one Status; the selection and the print
\* happen only once all four are collected; and unless a query fails the run
\* ends having printed exactly one line.
C10_OneLineAfterFourChecks ==
    /\ []C10_State
    /\ [][(main_locals' # main_locals \/ stdout' # stdout)
            => (Len(checks) = 4 /\ invoked = Order)]_vars
    /\ (caller = "main") ~> (raised \/ (pc = "done" /\ Len(stdout) = 1))

\* C10 witness: CPU was CRITICAL, all four were still collected, one line printed
C10_Witness ==
    /\ pc = "done"
    /\ checks[1].code = "CRITICAL"
    /\ Len(checks) = 4
    /\ invoked = Order
    /\ Len(stdout) = 1

====
